---- MODULE Spec2Model ----
(***************************************************************************)
(* GreenBasket backend (server.js): the Razorpay webhook route with its    *)
(* middleware chain, and the two routes that write linkedAccountId and     *)
(* kycCompleted to the Firestore 'users' collection.                       *)
(*                                                                         *)
(*   Spec          the server as wired: express.json() (global), then      *)
(*                 express.raw() and the handler on /razorpay-webhook,     *)
(*                 /create-linked-account and /complete-kyc.               *)
(*   SpecReconcile the reconciliation block of the webhook handler (the    *)
(*                 try block, lines 227-254) as a function of the store    *)
(*                 and a parsed event, applied to drawn inputs.            *)
(***************************************************************************)
EXTENDS Integers, Sequences, FiniteSets, TLC

\* ------------------------------------------------------------------ bounds
\* Producers that have a document in the 'users' collection.
NumProducers == 2
\* Account ids the provider can issue / a client can name as merchantId.
MaxAccounts == 2

Producers == 1..NumProducers
\* producerId values a request can carry; the last one has no document.
RequestProducerIds == 1..(NumProducers + 1)
AccountIds == 1..MaxAccounts

\* ------------------------------------------------------------- data model
\* A JavaScript undefined string field.
Undefined == "<undefined>"

AccountStatuses == {"activated", "under_review"}
KycStatuses == {"verified", "pending", "rejected", "instantly_activated"}
EventTags == {"account.activated", "account.updated", "payment.captured"}

\* An optional linkedAccountId: <<>> when the field is absent, <<id>> when set.
NoAccount == <<>>

\* A 'users' document as the registration flow (outside this server) leaves it.
FreshUser ==
  [ linkedAccountId |-> NoAccount,
    kycCompleted |-> FALSE,
    razorpayAccountStatus |-> Undefined,
    razorpayKycStatus |-> Undefined,
    bankDetails |-> FALSE ]

\* DocumentReference.set(data) in the place of update(data): the document is
\* replaced, so every field that data does not name is lost.
FirestoreSet(doc, data) ==
  [ f \in DOMAIN doc |-> IF f \in DOMAIN data THEN data[f] ELSE FreshUser[f] ]

\* DocumentReference.update(data): merges the given fields into the document.
\* data is a record whose fields are a subset of the document's.
FirestoreUpdate(doc, data) ==
  [ f \in DOMAIN doc |-> IF f \in DOMAIN data THEN data[f] ELSE doc[f] ]

\* ---------------------------------------------------------------- crypto
\* process.env.RAZORPAY_WEBHOOK_SECRET: a string, or undefined when unset.
ConfigSecrets == {"whsec_A", Undefined}
\* Keys a sender may sign with.
SenderKeys == {"whsec_A", "whsec_B"}

\* hex(HMAC-SHA256(key, bytes)), idealised as collision free: two digests are
\* equal exactly when key and bytes are.
HmacHex(key, bytes) == <<key, bytes>>
\* The x-razorpay-signature header is absent.
NoSignature == <<>>

\* ------------------------------------------------------- request bodies
\* The raw bytes of a body: either not JSON at all, or a serialisation
\* (pretty = with whitespace, otherwise compact) of an event object.
InvalidBody ==
  [ valid |-> FALSE, pretty |-> FALSE, event |-> "payment.captured",
    hasEntity |-> FALSE, id |-> 1, status |-> "activated",
    kyc_status |-> "verified" ]

EventBodies ==
  { [ valid |-> TRUE, pretty |-> pr, event |-> tag, hasEntity |-> TRUE,
      id |-> a, status |-> st, kyc_status |-> k ] :
      pr \in BOOLEAN, tag \in EventTags, a \in AccountIds,
      st \in AccountStatuses, k \in KycStatuses }

\* Valid JSON whose payload.account.entity is missing.
EntityLessBodies ==
  { [ valid |-> TRUE, pretty |-> pr, event |-> tag, hasEntity |-> FALSE,
      id |-> 1, status |-> "activated", kyc_status |-> "verified" ] :
      pr \in BOOLEAN, tag \in EventTags }

Bodies == {InvalidBody} \cup EventBodies \cup EntityLessBodies

\* JSON.parse(text): the object, which no longer holds the whitespace.
JSONparse(bytes) ==
  [ event |-> bytes.event, hasEntity |-> bytes.hasEntity, id |-> bytes.id,
    status |-> bytes.status, kyc_status |-> bytes.kyc_status ]

\* JSON.stringify(JSON.parse(bytes)): the compact serialisation.
Reserialize(bytes) == [bytes EXCEPT !.pretty = FALSE]

\* ------------------------------------------------------------ middleware
\* app.use(express.json()): the global JSON body parser, which runs before
\* every route. It reads the body of a request whose Content-Type is
\* application/json, answers 400 when the text is not JSON, and otherwise sets
\* req.body to the parsed object and marks the request as parsed (req._body).
JsonParser(raw) ==
  IF ~raw.valid
  THEN [failed |-> TRUE, parsed |-> FALSE, kind |-> "None", obj |-> JSONparse(raw)]
  ELSE [failed |-> FALSE, parsed |-> TRUE, kind |-> "Object", obj |-> JSONparse(raw)]

\* express.raw({type: 'application/json'}) on the webhook route: it leaves a
\* request that an earlier parser marked as parsed alone, and otherwise sets
\* req.body to a Buffer of the raw bytes.
RawParser(raw, parsedReq) ==
  IF parsedReq.parsed
  THEN [kind |-> parsedReq.kind, obj |-> parsedReq.obj, bytes |-> raw]
  ELSE [kind |-> "Buffer", obj |-> parsedReq.obj, bytes |-> raw]

\* req.body as the webhook handler receives it: the two parsers in the order
\* in which the application registers them.
WebhookBody(raw) == RawParser(raw, JsonParser(raw))

\* --------------------------------------------------------- reconciliation
\* updateData of the webhook handler: both status fields, and kycCompleted
\* only for the three kyc_status values the handler tests for.
UpdateData(accountStatus, kycStatus) ==
  IF kycStatus = "verified"
  THEN [ razorpayAccountStatus |-> accountStatus,
         razorpayKycStatus |-> kycStatus, kycCompleted |-> TRUE ]
  ELSE IF kycStatus = "pending" \/ kycStatus = "rejected"
  THEN [ razorpayAccountStatus |-> accountStatus,
         razorpayKycStatus |-> kycStatus, kycCompleted |-> FALSE ]
  ELSE [ razorpayAccountStatus |-> accountStatus,
         razorpayKycStatus |-> kycStatus ]

\* A lookup that forgets the value: every document that holds some account id.
WhereAnyLinkedAccount(store, id) ==
  { p \in Producers : store[p].linkedAccountId # <<>> }

\* usersRef.where('linkedAccountId', '==', id).get(): the matching documents.
WhereLinkedAccountId(store, id) ==
  { p \in Producers : store[p].linkedAccountId = <<id>> }

\* snapshot.docs[0]: a query without orderBy returns documents by document id.
FirstDoc(docs) == CHOOSE p \in docs : \A q \in docs : p <= q

\* The documents the try block writes: docs[0] when the lookup succeeds, finds
\* a document and the update call succeeds; none when either call throws.
ReconcileTarget(store, entity, lookupOk, updateOk) ==
  IF lookupOk /\ updateOk /\ WhereLinkedAccountId(store, entity.id) # {}
  THEN {FirstDoc(WhereLinkedAccountId(store, entity.id))}
  ELSE {}

\* The try block of the webhook handler: lookup by linkedAccountId, then an
\* update of the first document found; an exception of either call is caught.
Reconcile(store, entity, lookupOk, updateOk) ==
  [ p \in Producers |->
      IF p \in ReconcileTarget(store, entity, lookupOk, updateOk)
      THEN FirestoreUpdate(store[p], UpdateData(entity.status, entity.kyc_status))
      ELSE store[p] ]

\* What the handler did with the store: which of its two calls it made.
StoreCalls(store, entity, lookupOk, updateOk) ==
  IF ~lookupOk THEN "lookup failed"
  ELSE IF WhereLinkedAccountId(store, entity.id) = {} THEN "no match"
  ELSE IF ~updateOk THEN "update failed"
  ELSE "updated"

\* ------------------------------------------------------- webhook handler
\* crypto's Hmac.update(data) accepts a string or a Buffer and throws a
\* TypeError for any other value.
HmacUpdateAccepts(body) == body.kind = "Buffer"

\* An exception that leaves the async handler: the handler sends nothing.
Thrown(store) ==
  [ threw |-> TRUE, status |-> "none", authenticated |-> FALSE,
    users |-> store, store |-> "not called" ]

Responded(status, authenticated, store, calls) ==
  [ threw |-> FALSE, status |-> status, authenticated |-> authenticated,
    users |-> store, store |-> calls ]

\* The handler of POST /razorpay-webhook, given req.body, the signature
\* header, the configured secret and the store.
WebhookHandler(body, signature, key, store, lookupOk, updateOk) ==
  IF key = Undefined THEN Thrown(store)                \* createHmac(.., undefined)
  ELSE IF ~HmacUpdateAccepts(body) THEN Thrown(store)  \* shasum.update(req.body)
  ELSE IF HmacHex(key, body.bytes) # signature
  THEN Responded("403", FALSE, store, "not called")
  ELSE IF ~body.bytes.valid THEN Thrown(store)         \* JSON.parse
  ELSE LET event == JSONparse(body.bytes) IN
    IF event.event = "account.activated" \/ event.event = "account.updated"
    THEN IF ~event.hasEntity THEN Thrown(store)        \* event.payload.account.entity.id
         ELSE Responded("200", TRUE,
                        Reconcile(store, event, lookupOk, updateOk),
                        StoreCalls(store, event, lookupOk, updateOk))
    ELSE Responded("200", TRUE, store, "not called")

VARIABLES
  users,        \* Firestore collection 'users': producerId -> document
  secret,       \* process.env.RAZORPAY_WEBHOOK_SECRET
  nextAccount,  \* the provider's next account id
  req,          \* the last request handled
  res,          \* the response to it
  snapshot,     \* the webhook handler between its lookup and its update:
                \* the document the lookup returned
  kycWriter     \* history: per producer, the last writer of kycCompleted and
                \* whether /complete-kyc ever succeeded for it

vars == <<users, secret, nextAccount, req, res, snapshot, kycWriter>>

\* ---------------------------------------------------------------- history
NeverWritten == [last |-> "none", manual |-> FALSE]

\* kycWriter after the webhook handler wrote updateData to the documents in
\* target: a writer only when updateData holds kycCompleted.
AfterReconcile(h, target, kycStatus) ==
  [ p \in Producers |->
      IF p \in target /\ "kycCompleted" \in DOMAIN UpdateData("activated", kycStatus)
      THEN [h[p] EXCEPT !.last =
              IF kycStatus = "verified" THEN "webhook verified"
              ELSE "webhook unverified"]
      ELSE h[p] ]

\* ------------------------------------------------------------------ routes
\* No request is being handled.
NoRequest == [route |-> "none"]
NoResponse == [route |-> "none", status |-> "none"]
Idle == req = NoRequest
\* No webhook delivery is between its lookup and its update.
NoSnapshot == [found |-> FALSE]

\* /create-linked-account writing the account id alone, kycCompleted forgotten.
CreatedAccountDataKeepsKyc(accountId) ==
  [ linkedAccountId |-> <<accountId>> ]

\* The fields /create-linked-account writes once the provider has issued the
\* account.
CreatedAccountData(accountId) ==
  [ linkedAccountId |-> <<accountId>>, kycCompleted |-> FALSE ]

\* The fields /complete-kyc writes.
CompletedKycData(merchantId) ==
  [ kycCompleted |-> TRUE, linkedAccountId |-> <<merchantId>>,
    bankDetails |-> TRUE ]

\* doc(producerId).update(data) succeeds only for an existing document and
\* when the store accepts the write.
WriteLands(producerId, dbOk) == producerId \in Producers /\ dbOk

\* The provider call of /create-linked-account succeeds or fails; the provider
\* issues each account id once, and at most MaxAccounts of them.
ProviderOutcomes == IF nextAccount <= MaxAccounts THEN BOOLEAN ELSE {FALSE}

\* POST /create-linked-account. Missing fields: 400. The provider call fails:
\* 500. Otherwise 200 with the new account id, and then the update of the
\* producer's document, whose failure is only logged.
CreateLinkedAccount ==
  /\ Idle
  /\ \E producerId \in RequestProducerIds, fieldsOk \in BOOLEAN,
        providerOk \in ProviderOutcomes, dbOk \in BOOLEAN :
    /\ req' = [route |-> "create-linked-account", producerId |-> producerId]
    /\ UNCHANGED <<secret, snapshot>>
    /\ IF ~fieldsOk
       THEN /\ res' = [route |-> "create-linked-account", status |-> "400"]
            /\ UNCHANGED <<users, nextAccount, kycWriter>>
       ELSE IF ~providerOk
       THEN /\ res' = [route |-> "create-linked-account", status |-> "500"]
            /\ UNCHANGED <<users, nextAccount, kycWriter>>
       ELSE /\ res' = [route |-> "create-linked-account", status |-> "200"]
            /\ nextAccount' = nextAccount + 1
            /\ IF WriteLands(producerId, dbOk)
               THEN /\ users' = [users EXCEPT ![producerId] =
                          FirestoreUpdate(@, CreatedAccountData(nextAccount))]
                    /\ kycWriter' = [kycWriter EXCEPT ![producerId].last = "create"]
               ELSE UNCHANGED <<users, kycWriter>>

\* POST /complete-kyc. Missing fields: 400. The update fails: 500. Otherwise
\* the document holds the client's merchantId and kycCompleted = true: 200.
CompleteKyc ==
  /\ Idle
  /\ \E producerId \in RequestProducerIds, merchantId \in AccountIds,
        fieldsOk \in BOOLEAN, dbOk \in BOOLEAN :
    /\ req' = [route |-> "complete-kyc", producerId |-> producerId]
    /\ UNCHANGED <<secret, nextAccount, snapshot>>
    /\ IF ~fieldsOk
       THEN /\ res' = [route |-> "complete-kyc", status |-> "400"]
            /\ UNCHANGED <<users, kycWriter>>
       ELSE IF ~WriteLands(producerId, dbOk)
       THEN /\ res' = [route |-> "complete-kyc", status |-> "500"]
            /\ UNCHANGED <<users, kycWriter>>
       ELSE /\ res' = [route |-> "complete-kyc", status |-> "200"]
            /\ users' = [users EXCEPT ![producerId] =
                  FirestoreUpdate(@, CompletedKycData(merchantId))]
            /\ kycWriter' = [kycWriter EXCEPT ![producerId] =
                  [last |-> "manual", manual |-> TRUE]]

\* The signature headers a delivery of the bytes raw may carry: none, or the
\* digest a sender computed with its key over these bytes or over their
\* re-serialised form.
Signatures(raw) ==
  {NoSignature} \cup
  { HmacHex(k, b) : k \in SenderKeys, b \in {raw, Reserialize(raw)} }

\* What the framework answers when an exception leaves an async handler:
\* nothing (Express 4 leaves the rejection unhandled) or 500 (Express 5).
UncaughtOutcomes == {"none", "500"}

\* POST /razorpay-webhook with Content-Type application/json: the global JSON
\* parser, then the route's raw parser, then the handler.
RazorpayWebhook ==
  /\ Idle
  /\ \E raw \in Bodies :
    \E signature \in Signatures(raw) :
      LET body == WebhookBody(raw)
          probe == WebhookHandler(body, signature, secret, users, TRUE, TRUE)
      IN
      \E lookupOk \in (IF probe.store = "not called" THEN {TRUE} ELSE BOOLEAN),
         updateOk \in (IF probe.store = "updated" THEN BOOLEAN ELSE {TRUE}),
         uncaught \in (IF probe.threw THEN UncaughtOutcomes ELSE {"none"}) :
        LET out == WebhookHandler(body, signature, secret, users,
                                  lookupOk, updateOk)
            target == IF out.store = "updated"
                      THEN ReconcileTarget(users, JSONparse(raw), lookupOk, updateOk)
                      ELSE {}
        IN
        /\ req' = [ route |-> "razorpay-webhook", raw |-> raw,
                    signature |-> signature ]
        /\ UNCHANGED <<secret, nextAccount, snapshot>>
        /\ IF JsonParser(raw).failed
           THEN /\ res' = [ route |-> "razorpay-webhook", status |-> "400",
                            authenticated |-> FALSE, store |-> "not called",
                            changed |-> FALSE ]
                /\ UNCHANGED <<users, kycWriter>>
           ELSE /\ users' = out.users
                /\ kycWriter' = AfterReconcile(kycWriter, target, raw.kyc_status)
                /\ res' = [ route |-> "razorpay-webhook",
                            status |-> IF out.threw THEN uncaught ELSE out.status,
                            authenticated |-> out.authenticated,
                            store |-> out.store,
                            changed |-> (out.users # users) ]

\* The exchange is over (the response was sent, or the client gave up on a
\* request that is never answered): the server holds nothing of it.
EndRequest ==
  /\ ~Idle
  /\ req' = NoRequest
  /\ res' = NoResponse
  /\ UNCHANGED <<users, secret, nextAccount, snapshot, kycWriter>>

Init ==
  /\ users = [p \in Producers |-> FreshUser]
  /\ secret \in ConfigSecrets
  /\ nextAccount = 1
  /\ req = NoRequest
  /\ res = NoResponse
  /\ snapshot = NoSnapshot
  /\ kycWriter = [p \in Producers |-> NeverWritten]

Next == CreateLinkedAccount \/ CompleteKyc \/ RazorpayWebhook \/ EndRequest

Spec == Init /\ [][Next]_vars

\* ------------------------------------------- the reconciliation block alone
\* The parsed events the block is written for: a recognised tag and an entity.
Entities ==
  { JSONparse(b) : b \in { e \in EventBodies : e.event # "payment.captured" } }

\* Documents as the other routes and earlier reconciliations can leave them,
\* two documents with the same linkedAccountId included.
DrawnUsers ==
  { [FreshUser EXCEPT !.linkedAccountId = a, !.kycCompleted = k] :
      a \in {NoAccount} \cup { <<i>> : i \in AccountIds }, k \in BOOLEAN }

InitReconcile ==
  /\ users \in [Producers -> DrawnUsers]
  /\ secret = "whsec_A"
  /\ nextAccount = 1
  /\ req = NoRequest
  /\ res = NoResponse
  /\ snapshot = NoSnapshot
  /\ kycWriter = [p \in Producers |-> NeverWritten]

\* One run of the try block on a parsed event.
ReconcileEvent ==
  /\ Idle
  /\ \E entity \in Entities, lookupOk \in BOOLEAN :
       \E updateOk \in (IF lookupOk /\ WhereLinkedAccountId(users, entity.id) # {}
                        THEN BOOLEAN ELSE {TRUE}) :
         /\ users' = Reconcile(users, entity, lookupOk, updateOk)
         /\ kycWriter' = AfterReconcile(kycWriter,
                ReconcileTarget(users, entity, lookupOk, updateOk),
                entity.kyc_status)
         /\ req' = [route |-> "reconcile", event |-> entity]
         /\ res' = [ route |-> "reconcile", status |-> "200",
                     store |-> StoreCalls(users, entity, lookupOk, updateOk),
                     changed |-> (users' # users) ]
         /\ UNCHANGED <<secret, nextAccount, snapshot>>

NextReconcile == ReconcileEvent \/ EndRequest

SpecReconcile == InitReconcile /\ [][NextReconcile]_vars

\* ------------------------------- the reconciliation block, call by call
\* The try block awaits its lookup and then its update: two round trips to the
\* store, between which the other routes' handlers run.

\* The events delivered while the other routes run: one per account id, with
\* the values that make the update write all three fields; the tag and the
\* statuses do not decide which document the two calls touch.
RaceEntities ==
  { e \in Entities : e.event = "account.updated" /\ e.status = "under_review"
                       /\ e.kyc_status = "verified" }

\* await usersRef.where(...).get() and snapshot.docs[0]: the handler keeps the
\* document found, with the data it held at that time. A failed lookup or an
\* empty snapshot ends the delivery (logged, 200).
WebhookLookup ==
  /\ Idle
  /\ snapshot = NoSnapshot
  /\ \E entity \in RaceEntities, lookupOk \in BOOLEAN :
       IF lookupOk /\ WhereLinkedAccountId(users, entity.id) # {}
       THEN /\ snapshot' =
                 [ found |-> TRUE, event |-> entity,
                   doc |-> FirstDoc(WhereLinkedAccountId(users, entity.id)),
                   linkedAccountId |->
                     users[FirstDoc(WhereLinkedAccountId(users, entity.id))]
                       .linkedAccountId ]
            /\ UNCHANGED <<users, secret, nextAccount, req, res, kycWriter>>
       ELSE /\ req' = [route |-> "reconcile", event |-> entity]
            /\ res' = [ route |-> "reconcile", status |-> "200",
                        store |-> StoreCalls(users, entity, lookupOk, TRUE),
                        changed |-> FALSE ]
            /\ UNCHANGED <<users, secret, nextAccount, snapshot, kycWriter>>

\* await userDoc.ref.update(updateData): the update goes to the document the
\* lookup returned, by its reference, whatever the document holds by now.
WebhookUpdate ==
  /\ Idle
  /\ snapshot.found
  /\ \E updateOk \in BOOLEAN :
       /\ users' =
            IF updateOk
            THEN [users EXCEPT ![snapshot.doc] =
                    FirestoreUpdate(@, UpdateData(snapshot.event.status,
                                                  snapshot.event.kyc_status))]
            ELSE users
       /\ kycWriter' = AfterReconcile(kycWriter,
              IF updateOk THEN {snapshot.doc} ELSE {},
              snapshot.event.kyc_status)
       /\ req' = [route |-> "reconcile", event |-> snapshot.event]
       /\ res' = [ route |-> "reconcile", status |-> "200",
                   store |-> IF updateOk THEN "updated" ELSE "update failed",
                   changed |-> (users' # users),
                   doc |-> snapshot.doc,
                   linkedAccountIdAtLookup |-> snapshot.linkedAccountId ]
       /\ snapshot' = NoSnapshot
       /\ UNCHANGED <<secret, nextAccount>>

InitRace ==
  /\ users = [p \in Producers |-> FreshUser]
  /\ secret = "whsec_A"
  /\ nextAccount = 1
  /\ req = NoRequest
  /\ res = NoResponse
  /\ snapshot = NoSnapshot
  /\ kycWriter = [p \in Producers |-> NeverWritten]

NextRace ==
  WebhookLookup \/ WebhookUpdate \/ CreateLinkedAccount \/ CompleteKyc \/ EndRequest

SpecRace == InitRace /\ [][NextRace]_vars

\* ================================================================ claims
WebhookDone == req.route = "razorpay-webhook"

\* The delivery carries the digest of its own raw bytes under the configured
\* secret, and the body passed the JSON parser.
CorrectlySigned ==
  /\ WebhookDone
  /\ secret # Undefined
  /\ req.raw.valid
  /\ req.signature = HmacHex(secret, req.raw)

RecognisedTag(raw) ==
  raw.event = "account.activated" \/ raw.event = "account.updated"

\* C1: a delivery whose x-razorpay-signature equals hex(HMAC(S, B)) over the
\* raw bytes B it carries is authenticated (the digest is computed over B).
C1_SignedDeliveryAuthenticated ==
  CorrectlySigned => res.authenticated

\* C2: a delivery whose signature differs from the digest of its body gets
\* 403 'Invalid Signature', is not processed, and changes no user record.
C2_MismatchRejected ==
  ( /\ WebhookDone
    /\ secret # Undefined
    /\ req.raw.valid
    /\ req.signature # HmacHex(secret, req.raw) )
  => (res.status = "403" /\ ~res.authenticated /\ ~res.changed)

\* C3: a delivery that carries the right signature is answered with
\* 200 'Webhook Received', whatever the store does.
C3_SignedDeliveryAcknowledged ==
  CorrectlySigned => res.status = "200"

\* C4: a rightly signed delivery whose body is not the expected structure (not
\* JSON, or a recognised tag without payload.account.entity) is answered with
\* 200 and changes no record.
C4_MalformedAcknowledged ==
  ( /\ WebhookDone
    /\ secret # Undefined
    /\ req.signature = HmacHex(secret, req.raw)
    /\ (~req.raw.valid \/ (RecognisedTag(req.raw) /\ ~req.raw.hasEntity)) )
  => (res.status = "200" /\ ~res.changed)

\* C5: after a rightly signed 'account.activated' or 'account.updated' event
\* whose account id matches a record (and no store call failed), the record
\* holds the event's status and kyc_status, with kycCompleted true for
\* 'verified' and false for 'pending' or 'rejected'.
C5_MatchedRecordUpdated ==
  ( /\ CorrectlySigned
    /\ RecognisedTag(req.raw) /\ req.raw.hasEntity
    /\ WhereLinkedAccountId(users, req.raw.id) # {}
    /\ res.store \notin {"lookup failed", "update failed"} )
  => LET doc == users[FirstDoc(WhereLinkedAccountId(users, req.raw.id))] IN
       /\ doc.razorpayAccountStatus = req.raw.status
       /\ doc.razorpayKycStatus = req.raw.kyc_status
       /\ (req.raw.kyc_status = "verified" => doc.kycCompleted)
       /\ (req.raw.kyc_status \in {"pending", "rejected"} => ~doc.kycCompleted)

\* C6 (as stated): kycCompleted is true exactly when the record's
\* razorpayKycStatus is 'verified' or /complete-kyc once marked it complete.
C6_KycCompletedIffVerifiedOrManual ==
  \A p \in Producers :
    users[p].kycCompleted <=>
      (users[p].razorpayKycStatus = "verified" \/ kycWriter[p].manual)

\* C6 (amended): kycCompleted is true exactly when the last write to the field
\* was /complete-kyc or a webhook update with kyc_status 'verified'; a later
\* /create-linked-account sets it back to false.
C6_KycCompletedIffLastWriter ==
  \A p \in Producers :
    users[p].kycCompleted <=>
      kycWriter[p].last \in {"manual", "webhook verified"}

\* C6 witness: a record that /complete-kyc marked complete and that a later
\* /create-linked-account reset.
C6_ResetAfterManual ==
  \E p \in Producers :
    /\ kycWriter[p].manual
    /\ kycWriter[p].last = "create"
    /\ ~users[p].kycCompleted

\* C7: a rightly signed delivery changes the store only for a recognised tag
\* with a matching record; for any other tag, and for no match, the store is
\* unchanged and the response is 200.
C7_OnlyMatchedRecognisedMutates ==
  ( /\ CorrectlySigned
    /\ (RecognisedTag(req.raw) => req.raw.hasEntity) )
  => /\ res.changed =>
          (RecognisedTag(req.raw) /\ WhereLinkedAccountId(users, req.raw.id) # {})
     /\ (~RecognisedTag(req.raw) \/ WhereLinkedAccountId(users, req.raw.id) = {})
          => (~res.changed /\ res.status = "200")

\* C8: reconciliation is idempotent. Once an event has been applied (its
\* record updated, or no record found), a second delivery of the same event
\* leaves every record as the first left it, whatever the store does then.
C8_ReconcileIdempotent ==
  ( /\ req.route = "reconcile"
    /\ res.store \in {"updated", "no match"} )
  => \A lookupOk \in BOOLEAN, updateOk \in BOOLEAN :
       Reconcile(users, req.event, lookupOk, updateOk) = users

\* C8 witness: a 'verified' event has been applied to a record and changed it.
C8_VerifiedEventApplied ==
  /\ req.route = "reconcile"
  /\ res.store = "updated"
  /\ res.changed
  /\ req.event.kyc_status = "verified"

\* C9: at most one user record references a given linkedAccountId.
C9_LinkedAccountIdUnique ==
  \A p \in Producers, q \in Producers :
    (p # q /\ users[p].linkedAccountId # NoAccount)
      => users[p].linkedAccountId # users[q].linkedAccountId

\* C10: with the webhook secret unset every delivery is rejected (403), none
\* is authenticated or acknowledged, and none changes the store.
C10_UnsetSecretRejects ==
  ( /\ WebhookDone
    /\ secret = Undefined
    /\ req.raw.valid )
  => (res.status = "403" /\ ~res.authenticated /\ ~res.changed)

\* The split block has just applied its update to a document.
WebhookUpdateApplied ==
  /\ req.route = "reconcile"
  /\ res.store = "updated"
  /\ "doc" \in DOMAIN res

====
